---- MODULE Spec2Model ----
(***************************************************************************)
(* Model of the ralph-tui run command (src/src/commands/run.tsx):          *)
(* executeRunCommand, promptResumeOrNew, runHeadless and runWithTui, with  *)
(* the session store, the lock manager, the interrupt coordinator and the  *)
(* execution engine they call.  The collaborators live in ../session,      *)
(* ../engine and ../interruption, which are not part of the source tree;   *)
(* they are modelled from spec.md (sections 4.2, 4.3, 4.4, 4.7, 4.8).      *)
(*                                                                         *)
(* One working directory is shared by the processes of Procs.  Every       *)
(* action is one step of one process between two points where it waits     *)
(* for the file system, for the engine or for the user.                    *)
(***************************************************************************)
EXTENDS Naturals, Integers, Sequences, FiniteSets, Bags, TLC

\* ------------------------------------------------------------- bounds
\* Largest number of open tasks the tracker starts with.
MaxTasks == 2
\* Largest number of iterations one engine run performs.
MaxIterations == 2
\* Largest number of un-awaited saves of the observer one process has in
\* flight.
MaxInflight == 1
\* Largest number of times the user pauses one engine run.
MaxPauses == 1
\* Largest number of iterations of one engine run whose agent run fails.
MaxFailures == 4
\* Largest number of cancellations of the interrupt dialog that are counted.
MaxCancels == 1

\* ------------------------------------------------------------- configuration
\* retry.max_attempts, retry.initial_delay_ms and the cap of the backoff.
RetryMaxAttempts == 3
InitialDelayMs == 10
BackoffCapMs == 40

\* ------------------------------------------------------------- names
\* The processes that run the command on the working directory.
Procs == {"p1", "p2"}
\* A process outside the model that is alive and may hold the lock.
ForeignPid == "foreign"
\* A pid that names no process of the host (a stale holder).
DeadPid == "dead"
\* Session ids.  OldSid: the session left in the working directory by an
\* earlier run.  randomUUID() gives every caller an id nobody else has.
NoSid == <<"none", "none">>
OldSid == <<"old", "old">>
randomUUID(p, use) == <<use, p>>

VARIABLES
  lock,      \* .ralph-tui/lock: <<>> or <<[pid, sid]>>
  disk,      \* .ralph-tui/session.json: <<>> or <<snapshot>>
  tmp,       \* .ralph-tui/session.json.tmp: <<>> or <<snapshot>>
  tasksOpen, \* tracker: number of tasks in open / in_progress
  tasksDone, \* tracker: number of tasks completed since the model started
  pc,        \* pc[p]: position of process p in executeRunCommand
  opt,       \* opt[p]: [force, resume, headless] (parseRunArgs)
  chk,       \* chk[p]: sessionCheck.hasSession as read at line 706
  lockResult,\* lockResult[p]: what acquireLockWithPrompt returned (line 726)
  lockSid,   \* lockSid[p]: newSessionId (line 723), NoSid before
  sid,       \* sid[p]: session.id (lines 746, 756), NoSid before
  cur,       \* cur[p]: persistedState / currentState
  inflight,  \* inflight[p]: the bag of saves started and not yet finished
  eng,       \* eng[p]: the ExecutionEngine's state
  intr,      \* intr[p]: interrupt coordinator (TUI) / double-press window (headless)
  cancels,   \* cancels[p]: the interrupt dialog was cancelled or has expired (TUI)
  hnd,       \* hnd[p]: lock cleanup handlers are registered
  exitHow    \* exitHow[p]: how the process ended

vars == <<lock, disk, tmp, tasksOpen, tasksDone, pc, opt, chk, lockResult,
          lockSid, sid, cur, inflight, eng, intr, cancels, hnd, exitHow>>

files == <<lock, disk, tmp>>
tracker == <<tasksOpen, tasksDone>>

\* ------------------------------------------------------------- session
\* A persisted session snapshot (spec.md section 3, the fields the run
\* command reads or writes).
Snapshot(s, st, it, tc, tot, pa) ==
  [sid |-> s, status |-> st, iter |-> it, tc |-> tc, total |-> tot, paused |-> pa]

\* The values of a process's variables before they are assigned.
NoSnapshot == Snapshot(NoSid, "none", 0, 0, 0, FALSE)
NoEngine ==
  [status |-> "none", phase |-> "none", iter |-> 0, tc |-> 0, total |-> 0,
   max |-> 0, reason |-> "none", pauses |-> 0,
   failed |-> 0, attempts |-> 0, delay |-> 0, error |-> "none", action |-> "none",
   excluded |-> 0, noTasks |-> 0]
NoOptions == [force |-> FALSE, resume |-> FALSE, headless |-> FALSE]

\* create(params): counters initialised, total from the task snapshot.
createPersistedSession(s, tot) == Snapshot(s, "running", 0, 0, tot, FALSE)

\* fold(session, iter_result): one more iteration, one more completed task
\* when the result flipped a task to completed.
updateSessionAfterIteration(s, result) ==
  [s EXCEPT !.iter = @ + 1,
            !.tc = IF result.taskCompleted THEN @ + 1 ELSE @]

pauseSession(s) == [s EXCEPT !.status = "paused", !.paused = TRUE]
completeSession(s) == [s EXCEPT !.status = "completed", !.paused = FALSE]
failSession(s) == [s EXCEPT !.status = "failed"]

\* resumable(session) that looks at the status only.
isSessionResumable_StatusOnly(s) ==
  s.status \in {"running", "paused", "interrupted"}

\* resumable(session)
isSessionResumable(s) ==
  /\ s.status \in {"running", "paused", "interrupted"}
  /\ s.tc < s.total

\* ------------------------------------------------------------- processes
Alive(q) ==
  \/ q = ForeignPid
  \/ q \in Procs /\ pc[q] \notin {"off", "exited"}

\* checkSession(cwd)
checkSession ==
  [hasSession |-> disk # <<>>,
   isLocked |-> lock # <<>>,
   isStale |-> lock # <<>> /\ ~Alive(lock[1].pid)]

\* hasPersistedSession(cwd)
hasPersistedSession == disk # <<>>

\* ------------------------------------------------------------- store, lock
\* A write that stops half way: the file holds a prefix of the snapshot.
WriteTmp_Torn(s) == disk' = <<[s EXCEPT !.status = "partial"]>> /\ tmp' = tmp

\* savePersistedSession, first half: the snapshot goes to the temporary file
\* and the session file is not touched.
WriteTmp(s) == tmp' = <<s>> /\ disk' = disk

\* savePersistedSession, second half: the temporary file is renamed over the
\* session file.  When another save has already renamed it away the error is
\* logged and the run goes on (spec.md section 7).
RenameTmp ==
  IF tmp # <<>>
  THEN disk' = tmp /\ tmp' = <<>>
  ELSE UNCHANGED <<disk, tmp>>

\* acquire(cwd, session_id, {force}): Acquired on a free lock, on a stale
\* one and, with force, on a live one; Conflict otherwise.
acquireLock(force) ==
  IF lock = <<>> THEN "free"
  ELSE IF ~Alive(lock[1].pid) THEN "stale"
  ELSE IF force THEN "forced"
  ELSE "conflict"

\* The 'exit' handlers of registerLockCleanupHandlers release the lock; a
\* force-quit ends the process without them.
LockAfterExit(p, how) ==
  IF hnd[p] /\ how \notin {"force", "killed"} THEN <<>> ELSE lock

\* The end of a process: its memory and its pending I/O are gone.
Gone(p, how) ==
  /\ pc' = [pc EXCEPT ![p] = "exited"]
  /\ exitHow' = [exitHow EXCEPT ![p] = how]
  /\ hnd' = [hnd EXCEPT ![p] = FALSE]
  /\ inflight' = [inflight EXCEPT ![p] = EmptyBag]
  /\ opt' = [opt EXCEPT ![p] = NoOptions]
  /\ chk' = [chk EXCEPT ![p] = FALSE]
  /\ lockResult' = [lockResult EXCEPT ![p] = "none"]
  /\ lockSid' = [lockSid EXCEPT ![p] = NoSid]
  /\ sid' = [sid EXCEPT ![p] = NoSid]
  /\ cur' = [cur EXCEPT ![p] = NoSnapshot]
  /\ eng' = [eng EXCEPT ![p] = NoEngine]
  /\ intr' = [intr EXCEPT ![p] = "idle"]
  /\ cancels' = [cancels EXCEPT ![p] = 0]

\* process.exit and every other end of the process that no statement of the
\* command precedes with a release of the lock.
ProcessExit(p, how) ==
  /\ Gone(p, how)
  /\ lock' = LockAfterExit(p, how)
  /\ UNCHANGED <<disk, tmp, tracker>>

\* ------------------------------------------------------------- Init
\* What an earlier run may have left in the working directory: nothing, or
\* the last snapshot of a session that was interrupted, paused, stopped by
\* its budget, completed or failed.
OldSessions ==
  {Snapshot(OldSid, st, it, tc, MaxTasks, st = "paused") :
     st \in {"running", "paused", "interrupted", "failed"},
     it \in {MaxIterations}, tc \in {1}}
  \cup {Snapshot(OldSid, "completed", MaxIterations, MaxTasks, MaxTasks, FALSE)}

Init ==
  /\ lock \in {<<>>} \cup {<<[pid |-> q, sid |-> OldSid]>> : q \in {DeadPid, ForeignPid}}
  /\ disk \in {<<>>} \cup {<<s>> : s \in OldSessions}
  /\ tmp = <<>>
  /\ tasksOpen \in 0..MaxTasks
  /\ tasksDone = 0
  /\ pc = [p \in Procs |-> "off"]
  /\ opt = [p \in Procs |-> NoOptions]
  /\ chk = [p \in Procs |-> FALSE]
  /\ lockResult = [p \in Procs |-> "none"]
  /\ lockSid = [p \in Procs |-> NoSid]
  /\ sid = [p \in Procs |-> NoSid]
  /\ cur = [p \in Procs |-> NoSnapshot]
  /\ inflight = [p \in Procs |-> EmptyBag]
  /\ eng = [p \in Procs |-> NoEngine]
  /\ intr = [p \in Procs |-> "idle"]
  /\ cancels = [p \in Procs |-> 0]
  /\ hnd = [p \in Procs |-> FALSE]
  /\ exitHow = [p \in Procs |-> "none"]

\* ------------------------------------------------------------- start-up
local == <<chk, lockResult, lockSid, sid, cur, eng, intr, cancels>>
rest == <<inflight, hnd, exitHow>>

Goto(p, to) == pc' = [pc EXCEPT ![p] = to]

\* parseRunArgs, buildConfig, validateConfig: the command starts with its
\* options and a valid configuration.
Start(p, O) ==
  /\ pc[p] = "off"
  /\ \E o \in O : opt' = [opt EXCEPT ![p] = o]
  /\ Goto(p, "check")
  /\ UNCHANGED <<files, tracker, local, inflight, hnd, exitHow>>

\* Lines 705-710: checkSession and hasPersistedSession, then the branch.
CheckExisting(p) ==
  /\ pc[p] = "check"
  /\ chk' = [chk EXCEPT ![p] = checkSession.hasSession]
  /\ IF hasPersistedSession /\ ~opt[p].force /\ ~opt[p].resume
     THEN Goto(p, "prompt")
     ELSE Goto(p, "acquire")
  /\ UNCHANGED <<files, tracker, opt, lockResult, lockSid, sid, cur, eng, intr, cancels, inflight,
                 hnd, exitHow>>

\* promptResumeOrNew without the test of isStale (line 248).
promptResumeOrNew_IgnoresStale ==
  IF ~hasPersistedSession THEN "new"
  ELSE IF checkSession.isLocked THEN "abort"
  ELSE "new"

\* promptResumeOrNew: 'new' when there is no session file, 'abort' when a
\* live process holds the lock, 'new' otherwise (resumable or not).
promptResumeOrNew ==
  IF ~hasPersistedSession THEN "new"
  ELSE IF checkSession.isLocked /\ ~checkSession.isStale THEN "abort"
  ELSE "new"

\* Lines 711-714.
PromptStep(p) ==
  /\ pc[p] = "prompt"
  /\ IF promptResumeOrNew = "abort"
     THEN ProcessExit(p, "abort")
     ELSE /\ Goto(p, "delete")
          /\ UNCHANGED <<files, tracker, opt, local, rest>>

\* Lines 715-718: the old session file is deleted.
DeleteOld(p) ==
  /\ pc[p] = "delete"
  /\ disk' = <<>>
  /\ Goto(p, "acquire")
  /\ UNCHANGED <<lock, tmp, tracker, opt, local, inflight, hnd, exitHow>>

\* Acquire without the exit of lines 731-737: the run goes on after a
\* conflict.
Acquire_IgnoresConflict(p) ==
  /\ pc[p] = "acquire"
  /\ IF acquireLock(opt[p].force) # "conflict"
     THEN /\ lockSid' = [lockSid EXCEPT ![p] = randomUUID(p, "lock")]
          /\ lockResult' = [lockResult EXCEPT ![p] = acquireLock(opt[p].force)]
          /\ lock' = <<[pid |-> p, sid |-> randomUUID(p, "lock")]>>
          /\ hnd' = [hnd EXCEPT ![p] = TRUE]
          /\ Goto(p, "session")
          /\ UNCHANGED <<disk, tmp, tracker, opt, chk, sid, cur, eng, intr, cancels,
                         inflight, exitHow>>
     ELSE /\ lockSid' = [lockSid EXCEPT ![p] = randomUUID(p, "lock")]
          /\ Goto(p, "session")
          /\ UNCHANGED <<files, tracker, opt, chk, lockResult, sid, cur, eng,
                         intr, cancels, inflight, hnd, exitHow>>

\* Acquire that does not pass options.force on (line 727).
Acquire_DropsForce(p) ==
  /\ pc[p] = "acquire"
  /\ IF acquireLock(FALSE) # "conflict"
     THEN /\ lockSid' = [lockSid EXCEPT ![p] = randomUUID(p, "lock")]
          /\ lockResult' = [lockResult EXCEPT ![p] = acquireLock(FALSE)]
          /\ lock' = <<[pid |-> p, sid |-> randomUUID(p, "lock")]>>
          /\ hnd' = [hnd EXCEPT ![p] = TRUE]
          /\ Goto(p, "session")
          /\ UNCHANGED <<disk, tmp, tracker, opt, chk, sid, cur, eng, intr, cancels,
                         inflight, exitHow>>
     ELSE ProcessExit(p, "conflict")

\* Lines 721-740: the session id for the lock, acquireLockWithPrompt, the
\* exit on a conflict, registerLockCleanupHandlers.
Acquire(p) ==
  /\ pc[p] = "acquire"
  /\ IF acquireLock(opt[p].force) # "conflict"
     THEN /\ lockSid' = [lockSid EXCEPT ![p] = randomUUID(p, "lock")]
          /\ lockResult' = [lockResult EXCEPT ![p] = acquireLock(opt[p].force)]
          /\ lock' = <<[pid |-> p, sid |-> randomUUID(p, "lock")]>>
          /\ hnd' = [hnd EXCEPT ![p] = TRUE]
          /\ Goto(p, "session")
          /\ UNCHANGED <<disk, tmp, tracker, opt, chk, sid, cur, eng, intr, cancels,
                         inflight, exitHow>>
     ELSE ProcessExit(p, "conflict")

\* resumeSession(cwd): the id of the persisted session when it is resumable,
\* NoSid (null) otherwise.
resumeSession ==
  IF disk # <<>> /\ isSessionResumable(disk[1]) THEN disk[1].sid ELSE NoSid

\* releaseLockNew followed by cleanupLockHandlers(), then process.exit(1).
ReleaseAndExit(p, how) ==
  /\ Gone(p, how)
  /\ lock' = <<>>
  /\ UNCHANGED <<disk, tmp, tracker>>

\* Lines 742-765: resume the persisted session or create a new one.
\* options.force, options.resume, sessionCheck and lockResult are read here
\* for the last time: the model forgets them.
OpenSession(p) ==
  /\ pc[p] = "session"
  /\ IF opt[p].resume /\ chk[p] /\ resumeSession = NoSid
     THEN ReleaseAndExit(p, "error")
     ELSE /\ sid' = [sid EXCEPT ![p] =
                       IF opt[p].resume /\ chk[p]
                       THEN resumeSession
                       ELSE randomUUID(p, "session")]
          /\ opt' = [opt EXCEPT ![p].force = FALSE, ![p].resume = FALSE]
          /\ chk' = [chk EXCEPT ![p] = FALSE]
          /\ lockResult' = [lockResult EXCEPT ![p] = "none"]
          /\ Goto(p, "init")
          /\ UNCHANGED <<files, tracker, lockSid, cur, eng, intr, cancels, rest>>

\* Lines 779-811: engine.initialize and tracker.getTasks; on success the
\* persisted state is created from the session id and the open tasks, on a
\* failure the session ends, the lock is released and the process exits.
EngineInit(p) ==
  /\ pc[p] = "init"
  /\ \/ /\ \E m \in {0, MaxIterations} :
            eng' = [eng EXCEPT ![p] =
                      [NoEngine EXCEPT !.status = "idle", !.phase = "tick",
                                       !.total = tasksOpen, !.max = m]]
        /\ cur' = [cur EXCEPT ![p] = createPersistedSession(sid[p], tasksOpen)]
        /\ Goto(p, "isave_w")
        /\ UNCHANGED <<files, tracker, opt, chk, lockResult, lockSid, sid, intr, cancels, rest>>
     \/ ReleaseAndExit(p, "error")

\* An awaited savePersistedSession (lines 814, 830, 845, 851): where the
\* command stands before the write, before the rename, and after the save.
AwaitedSaves ==
  {<<"isave_w", "isave_r", "run">>,
   <<"xsave_w", "xsave_r", "failend">>,
   <<"csave_w", "csave_r", "cdelete">>,
   <<"fsave_w", "fsave_r", "end">>}

SaveWrite(p) ==
  /\ \E a \in AwaitedSaves : pc[p] = a[1] /\ Goto(p, a[2])
  /\ WriteTmp(cur[p])
  /\ UNCHANGED <<lock, tracker, opt, local, inflight, hnd, exitHow>>

SaveRename(p) ==
  /\ \E a \in AwaitedSaves : pc[p] = a[2] /\ Goto(p, a[3])
  /\ RenameTmp
  /\ UNCHANGED <<lock, tracker, opt, local, inflight, hnd, exitHow>>

\* ------------------------------------------------------------- observer
\* A save that was started and is not awaited by the loop.  then = "quit"
\* marks the save of gracefulShutdown, which goes on when the save is done;
\* at is where the engine stood when gracefulShutdown was called.
Pending(s, then, at) ==
  [snap |-> s, stage |-> "write", then |-> then, at |-> at]
Put(b, e) == b (+) SetToBag({e})
Take(b, e) == b (-) SetToBag({e})

\* gracefulShutdown has started its save.
Quitting(p) == \E e \in BagToSet(inflight[p]) : e.then = "quit"

\* The saves the observer has started that are not finished.
ObserverSaves(p) ==
  BagCardinality(inflight[p]) - (IF Quitting(p) THEN 1 ELSE 0)

SavingEvents == {"iteration:completed", "engine:paused", "engine:resumed"}

\* The fold of one engine event into currentState (lines 350-369, 479-580).
ObserverState(s, ev) ==
  CASE ev.type = "iteration:completed" -> updateSessionAfterIteration(s, ev.result)
    [] ev.type = "engine:paused" -> pauseSession(s)
    [] ev.type = "engine:resumed" -> [s EXCEPT !.status = "running", !.paused = FALSE]
    [] OTHER -> s

\* engine.on(...): currentState is updated and, for the events that change
\* it, savePersistedSession is called and not awaited.
Observer(p, ev) ==
  /\ cur' = [cur EXCEPT ![p] = ObserverState(cur[p], ev)]
  /\ IF ev.type \in SavingEvents
     THEN /\ ObserverSaves(p) < MaxInflight
          /\ inflight' = [inflight EXCEPT ![p] =
                            Put(@, Pending(ObserverState(cur[p], ev), "none", "none"))]
     ELSE UNCHANGED inflight

Event(t) == [type |-> t, result |-> [taskCompleted |-> FALSE]]
IterationCompleted(done) ==
  [type |-> "iteration:completed", result |-> [taskCompleted |-> done]]

\* The first half of a save in flight: the snapshot goes to the tmp file.
InflightWrite(p) ==
  /\ pc[p] # "exited"
  /\ \E e \in BagToSet(inflight[p]) :
       /\ e.stage = "write"
       /\ WriteTmp(e.snap)
       /\ inflight' = [inflight EXCEPT ![p] =
                         Put(Take(@, e), [e EXCEPT !.stage = "rename"])]
  /\ UNCHANGED <<lock, tracker, pc, opt, local, hnd, exitHow>>

\* The second half: the rename.  The save of gracefulShutdown stays, as
\* done, for the rest of gracefulShutdown.
InflightRename(p) ==
  /\ pc[p] # "exited"
  /\ \E e \in BagToSet(inflight[p]) :
       /\ e.stage = "rename"
       /\ RenameTmp
       /\ inflight' = [inflight EXCEPT ![p] =
                         IF e.then = "quit"
                         THEN Put(Take(@, e), [e EXCEPT !.stage = "done"])
                         ELSE Take(@, e)]
  /\ UNCHANGED <<lock, tracker, pc, opt, local, hnd, exitHow>>

\* ------------------------------------------------------------- engine
\* terminate(reason): stopping, stopped, engine:stopped.
Stopped(e, reason) ==
  [e EXCEPT !.status = "stopped", !.reason = reason, !.pauses = 0]

\* Lines 443, 629: engine.start() after the observer and the signal
\* handlers are registered; engine:started.
RunStart(p) ==
  /\ pc[p] = "run"
  /\ eng' = [eng EXCEPT ![p].status = "running"]
  /\ Goto(p, "running")
  /\ UNCHANGED <<files, tracker, opt, chk, lockResult, lockSid, sid, cur, intr, cancels, inflight,
                 hnd, exitHow>>

\* The tasks the iteration controller can select (section 4.6, step 1):
\* those in open / in_progress that the loop has not skipped.
Eligible(p) == tasksOpen - eng[p].excluded

\* iteration:skipped with reason no_tasks.
NoTasks(e) == [e EXCEPT !.noTasks = @ + 1]

\* The head of the loop with the budget test 'current_iteration >=
\* max_iterations' alone: max_iterations = 0 is a budget of none.
EngineBegin_ZeroIsBudget(p) ==
  /\ pc[p] = "running"
  /\ eng[p].status = "running" /\ eng[p].phase = "tick"
  /\ IF eng[p].iter >= eng[p].max
     THEN eng' = [eng EXCEPT ![p] = Stopped(@, "max_iterations")]
     ELSE IF Eligible(p) = 0
     THEN eng' = [eng EXCEPT ![p] = Stopped(NoTasks(@), "idle")]
     ELSE /\ eng[p].iter - eng[p].failed < MaxIterations
          /\ eng' = [eng EXCEPT ![p].phase = "agent"]
  /\ UNCHANGED <<files, tracker, pc, opt, chk, lockResult, lockSid, sid, cur, intr, cancels,
                 inflight, hnd, exitHow>>

\* The head of the loop that goes on after iteration:skipped and stops
\* only when it finds no task a second time.
EngineBegin_SkipsAgain(p) ==
  /\ pc[p] = "running"
  /\ eng[p].status = "running" /\ eng[p].phase = "tick"
  /\ IF eng[p].max > 0 /\ eng[p].iter >= eng[p].max
     THEN eng' = [eng EXCEPT ![p] = Stopped(@, "max_iterations")]
     ELSE IF Eligible(p) = 0
     THEN eng' = [eng EXCEPT ![p] =
                    IF @.noTasks = 0 THEN NoTasks(@) ELSE Stopped(NoTasks(@), "idle")]
     ELSE /\ eng[p].iter - eng[p].failed < MaxIterations
          /\ eng' = [eng EXCEPT ![p].phase = "agent"]
  /\ UNCHANGED <<files, tracker, pc, opt, chk, lockResult, lockSid, sid, cur, intr, cancels,
                 inflight, hnd, exitHow>>

\* The head of the loop (spec.md section 4.7) and the start of a tick
\* (section 4.6, steps 1-5): budget, task selection, task:selected,
\* iteration:started.
EngineBegin(p) ==
  /\ pc[p] = "running"
  /\ eng[p].status = "running" /\ eng[p].phase = "tick"
  /\ IF eng[p].max > 0 /\ eng[p].iter >= eng[p].max
     THEN eng' = [eng EXCEPT ![p] = Stopped(@, "max_iterations")]
     ELSE IF Eligible(p) = 0
     THEN eng' = [eng EXCEPT ![p] = Stopped(NoTasks(@), "idle")]
     ELSE /\ eng[p].iter - eng[p].failed < MaxIterations
          /\ eng' = [eng EXCEPT ![p].phase = "agent"]
  /\ UNCHANGED <<files, tracker, pc, opt, chk, lockResult, lockSid, sid, cur, intr, cancels,
                 inflight, hnd, exitHow>>

\* iteration:completed and task:completed without a tick having started.
EngineFinish_WithoutStart(p) ==
  /\ pc[p] = "running"
  /\ eng[p].status \in {"running", "paused"}
  /\ \E done \in BOOLEAN :
       /\ done => tasksOpen > 0
       /\ tasksOpen' = IF done THEN tasksOpen - 1 ELSE tasksOpen
       /\ tasksDone' = IF done THEN tasksDone + 1 ELSE tasksDone
       /\ eng' = [eng EXCEPT ![p].phase = "tick",
                             ![p].iter = @ + 1,
                             ![p].tc = IF done THEN @ + 1 ELSE @,
                             ![p].attempts = IF done THEN 0 ELSE @]
       /\ Observer(p, IterationCompleted(done))
  /\ UNCHANGED <<files, pc, opt, chk, lockResult, lockSid, sid, intr, cancels, hnd, exitHow>>

\* The end of a tick (section 4.6, steps 6-8): the agent has run, the
\* tracker says whether the task is completed, iteration:completed.
EngineFinish(p) ==
  /\ pc[p] = "running"
  /\ eng[p].status \in {"running", "paused"} /\ eng[p].phase = "agent"
  /\ \E done \in BOOLEAN :
       /\ done => tasksOpen > 0
       /\ tasksOpen' = IF done THEN tasksOpen - 1 ELSE tasksOpen
       /\ tasksDone' = IF done THEN tasksDone + 1 ELSE tasksDone
       /\ eng' = [eng EXCEPT ![p].phase = "tick",
                             ![p].iter = @ + 1,
                             ![p].tc = IF done THEN @ + 1 ELSE @,
                             ![p].attempts = IF done THEN 0 ELSE @]
       /\ Observer(p, IterationCompleted(done))
  /\ UNCHANGED <<files, pc, opt, chk, lockResult, lockSid, sid, intr, cancels, hnd, exitHow>>

\* The kinds of error an agent run ends with (section 7); "fatal" stands
\* for configuration / not-ready / authentication.
ErrorKinds == {"transient", "blocked", "fatal"}

\* A classification that takes every error for a transient one.
classify_AllTransient(kind) == "retry"

\* classify(error): transient -> retry, blocked -> skip, configuration /
\* not-ready / authentication -> abort.
classify(kind) ==
  CASE kind = "transient" -> "retry"
    [] kind = "blocked" -> "skip"
    [] kind = "fatal" -> "abort"

\* The action carried by iteration:failed: a retry whose attempts are used
\* up escalates to skip (section 7).
policy(kind, attempts) ==
  IF classify(kind) = "retry" /\ attempts >= RetryMaxAttempts
  THEN "skip"
  ELSE classify(kind)

\* 2^k
RECURSIVE Pow2(_)
Pow2(k) == IF k = 0 THEN 1 ELSE 2 * Pow2(k - 1)

Min(a, b) == IF a <= b THEN a ELSE b

\* A backoff that grows by initial_delay_ms at every attempt.
backoff_Linear(k) == Min(InitialDelayMs * (k + 1), BackoffCapMs)

\* Backoff: the delay at attempt k.
backoff(k) == Min(InitialDelayMs * Pow2(k), BackoffCapMs)

\* The loop after a failed tick (section 4.7): the tick is folded, then
\* retry (iteration:retrying, same task), skip (the task is left) or abort
\* (terminate with reason fatal).
AfterFailure(e, kind) ==
  LET action == policy(kind, e.attempts)
      f == [e EXCEPT !.iter = @ + 1, !.failed = @ + 1, !.error = kind,
                     !.action = action, !.phase = "tick"]
  IN CASE action = "retry" ->
            [f EXCEPT !.attempts = @ + 1, !.delay = backoff(e.attempts)]
       [] action = "skip" ->
            [f EXCEPT !.attempts = 0, !.excluded = @ + 1]
       [] action = "abort" -> Stopped(f, "fatal")

\* The end of a tick whose agent run failed (section 4.6, steps 6 and 8):
\* iteration:failed with the action of the policy.  The observers only log
\* the event (lines 516-533).
EngineFail(p) ==
  /\ pc[p] = "running"
  /\ eng[p].status \in {"running", "paused"} /\ eng[p].phase = "agent"
  /\ eng[p].failed < MaxFailures
  /\ \E kind \in ErrorKinds :
       eng' = [eng EXCEPT ![p] = AfterFailure(@, kind)]
  /\ Observer(p, Event("iteration:failed"))
  /\ UNCHANGED <<files, tracker, pc, opt, chk, lockResult, lockSid, sid, intr, cancels,
                 hnd, exitHow>>

\* pause(): running -> paused, engine:paused.  Both observers handle the
\* event (lines 356, 552).
EnginePause(p) ==
  /\ pc[p] = "running" /\ intr[p] # "disposed"
  /\ eng[p].status = "running"
  /\ eng[p].pauses < MaxPauses
  /\ eng' = [eng EXCEPT ![p].status = "paused", ![p].pauses = @ + 1]
  /\ Observer(p, Event("engine:paused"))
  /\ UNCHANGED <<files, tracker, pc, opt, chk, lockResult, lockSid, sid, intr, cancels,
                 hnd, exitHow>>

\* resume(): paused -> running, engine:resumed.
EngineResume(p) ==
  /\ pc[p] = "running" /\ intr[p] # "disposed"
  /\ eng[p].status = "paused"
  /\ eng' = [eng EXCEPT ![p].status = "running"]
  /\ Observer(p, Event("engine:resumed"))
  /\ UNCHANGED <<files, tracker, pc, opt, chk, lockResult, lockSid, sid, intr, cancels,
                 hnd, exitHow>>

\* The tracker is owned by its plugin and by the agent: while a run is in an
\* iteration a task that was not in the snapshot of the session appears.
TrackerAdd ==
  /\ \E p \in Procs : pc[p] = "running" /\ eng[p].phase = "agent"
  /\ tasksOpen < MaxTasks
  /\ tasksOpen' = tasksOpen + 1
  /\ UNCHANGED <<files, tasksDone, pc, opt, local, rest>>

\* engine.start() rejects while the agent runs: the catch of lines 823-830
\* marks the persisted state of executeRunCommand, which is still the
\* initial one, as failed.
EngineThrow(p) ==
  /\ pc[p] = "running"
  /\ eng[p].status \in {"running", "paused"} /\ eng[p].phase = "agent"
  /\ eng' = [eng EXCEPT ![p] = Stopped(@, "error")]
  /\ cur' = [cur EXCEPT ![p] =
               failSession(createPersistedSession(sid[p], eng[p].total))]
  /\ Goto(p, "xsave_w")
  /\ UNCHANGED <<files, tracker, opt, chk, lockResult, lockSid, sid, intr, cancels, inflight, hnd,
                 exitHow>>

\* ------------------------------------------------------------- the two modes
\* Lines 629-632 (headless): the engine has stopped, engine.dispose(), the
\* current state is returned.  Lines 443-453 (TUI): the engine has stopped
\* and runWithTui waits for the user to quit.
EngineStopped(p) ==
  /\ pc[p] = "running"
  /\ eng[p].status = "stopped"
  /\ Goto(p, IF opt[p].headless THEN "post" ELSE "waitquit")
  /\ UNCHANGED <<files, tracker, opt, local, inflight, hnd, exitHow>>

InRun(p) == pc[p] \in {"running", "waitquit"}

\* gracefulShutdown up to its await of savePersistedSession.  Headless
\* (lines 583-588, 610-613): the state becomes interrupted.  TUI (lines
\* 380-382): the current state is saved as it is.
gracefulShutdown(p) ==
  /\ ~Quitting(p)
  /\ cur' = [cur EXCEPT ![p] =
               IF opt[p].headless THEN [@ EXCEPT !.status = "interrupted"] ELSE @]
  /\ inflight' = [inflight EXCEPT ![p] =
                    Put(@, Pending(
                      IF opt[p].headless
                      THEN [cur[p] EXCEPT !.status = "interrupted"]
                      ELSE cur[p], "quit", eng[p].phase))]

\* SIGINT handling that does not look at the time of the last SIGINT: any
\* SIGINT during a graceful shutdown is a force quit.
Interrupt_NoWindow(p) ==
  /\ InRun(p)
  /\ IF opt[p].headless
     THEN IF Quitting(p)
          THEN ProcessExit(p, "force")
          ELSE /\ intr' = [intr EXCEPT ![p] = "recent"]
               /\ gracefulShutdown(p)
               /\ UNCHANGED <<files, tracker, pc, opt, chk, lockResult, lockSid, sid, eng,
                              cancels, hnd, exitHow>>
     ELSE \/ /\ intr[p] = "idle"
             /\ intr' = [intr EXCEPT ![p] = "pending"]
             /\ UNCHANGED <<files, tracker, pc, opt, chk, lockResult, lockSid, sid, eng,
                            cur, cancels, inflight, hnd, exitHow>>
          \/ /\ intr[p] \in {"idle", "pending"}
             /\ ProcessExit(p, "force")

\* SIGINT.  Headless (lines 594-607): a second one within the window is a
\* force quit, a first one starts gracefulShutdown.  TUI (section 4.4):
\* Idle -> Pending, Pending -> ForceQuit (lines 389-392).
Interrupt(p) ==
  /\ InRun(p)
  /\ IF opt[p].headless
     THEN IF intr[p] = "recent"
          THEN ProcessExit(p, "force")
          ELSE /\ intr' = [intr EXCEPT ![p] = "recent"]
               /\ gracefulShutdown(p)
               /\ UNCHANGED <<files, tracker, pc, opt, chk, lockResult, lockSid, sid, eng,
                              cancels, hnd, exitHow>>
     ELSE \/ /\ intr[p] = "idle"
             /\ intr' = [intr EXCEPT ![p] = "pending"]
             /\ UNCHANGED <<files, tracker, pc, opt, chk, lockResult, lockSid, sid, eng,
                            cur, cancels, inflight, hnd, exitHow>>
          \/ /\ intr[p] = "pending"
             /\ ProcessExit(p, "force")

\* A cancel of the dialog that is taken for its confirmation: the
\* graceful-shutdown callback is called.
WindowExpire_Confirms(p) ==
  /\ InRun(p)
  /\ intr[p] \in {"recent", "pending"}
  /\ intr' = [intr EXCEPT ![p] = "idle"]
  /\ cancels' = [cancels EXCEPT ![p] =
                   IF opt[p].headless THEN @ ELSE Min(@ + 1, MaxCancels)]
  /\ IF opt[p].headless
     THEN UNCHANGED <<cur, inflight>>
     ELSE gracefulShutdown(p)
  /\ UNCHANGED <<files, tracker, pc, opt, chk, lockResult, lockSid, sid, eng, hnd, exitHow>>

\* The double-press window ends (headless), or the dialog is cancelled or
\* its timer expires (TUI, lines 317-320): Cancelled, hide_dialog, back to
\* Idle.
WindowExpire(p) ==
  /\ InRun(p)
  /\ intr[p] \in {"recent", "pending"}
  /\ intr' = [intr EXCEPT ![p] = "idle"]
  /\ cancels' = [cancels EXCEPT ![p] =
                   IF opt[p].headless THEN @ ELSE Min(@ + 1, MaxCancels)]
  /\ UNCHANGED <<files, tracker, pc, opt, chk, lockResult, lockSid, sid, cur, eng,
                 inflight, hnd, exitHow>>

\* TUI: the dialog is confirmed (lines 313-316) or the quit key is pressed
\* (line 418): gracefulShutdown.
ConfirmQuit(p) ==
  /\ InRun(p) /\ ~opt[p].headless
  /\ intr[p] \in {"idle", "pending"}
  /\ intr' = [intr EXCEPT ![p] = "confirmed"]
  /\ gracefulShutdown(p)
  /\ UNCHANGED <<files, tracker, pc, opt, chk, lockResult, lockSid, sid, eng, cancels,
                 hnd, exitHow>>

\* SIGTERM (lines 411, 610-616): always graceful.
Sigterm(p) ==
  /\ InRun(p)
  /\ gracefulShutdown(p)
  /\ UNCHANGED <<files, tracker, pc, opt, chk, lockResult, lockSid, sid, eng, intr, cancels, hnd,
                 exitHow>>

\* The rest of gracefulShutdown, after its save.  Headless (lines 589-590):
\* engine.dispose() and process.exit(0).  TUI (lines 383-385): cleanup()
\* and resolveQuitPromise?.(), which lets runWithTui return only when it
\* already waits for it.
GracefulFinish(p) ==
  /\ pc[p] # "exited"
  /\ \E e \in BagToSet(inflight[p]) :
       /\ e.then = "quit" /\ e.stage = "done"
       /\ IF opt[p].headless
          THEN ProcessExit(p, "graceful")
          ELSE /\ inflight' = [inflight EXCEPT ![p] = Take(@, e)]
               /\ intr' = [intr EXCEPT ![p] = "disposed"]
               /\ Goto(p, IF pc[p] = "waitquit" THEN "post" ELSE pc[p])
               /\ UNCHANGED <<files, tracker, opt, chk, lockResult, lockSid, sid, cur, eng,
                              cancels, hnd, exitHow>>

\* ------------------------------------------------------------- after the run
\* Lines 837-853: the session is completed when the engine counts every
\* task as completed or is idle; otherwise it stays resumable.
allComplete(p) == eng[p].tc >= eng[p].total \/ eng[p].status = "idle"

PostRun(p) ==
  /\ pc[p] = "post"
  /\ IF allComplete(p)
     THEN /\ cur' = [cur EXCEPT ![p] = completeSession(@)]
          /\ Goto(p, "csave_w")
     ELSE /\ Goto(p, "fsave_w")
          /\ UNCHANGED cur
  /\ UNCHANGED <<files, tracker, opt, chk, lockResult, lockSid, sid, eng, intr, cancels, inflight,
                 hnd, exitHow>>

\* Line 847: deletePersistedSession on successful completion.
DeleteCompleted(p) ==
  /\ pc[p] = "cdelete"
  /\ disk' = <<>>
  /\ Goto(p, "end")
  /\ UNCHANGED <<lock, tmp, tracker, opt, local, inflight, hnd, exitHow>>

\* The end of the run without releaseLockNew (line 856).
EndRun_KeepsLock(p) ==
  /\ pc[p] = "end"
  /\ hnd' = [hnd EXCEPT ![p] = FALSE]
  /\ Goto(p, "done")
  /\ UNCHANGED <<files, tracker, opt, local, inflight, exitHow>>

\* Lines 855-859: endSession, releaseLockNew, cleanupLockHandlers().
EndRun(p) ==
  /\ pc[p] = "end"
  /\ lock' = <<>>
  /\ hnd' = [hnd EXCEPT ![p] = FALSE]
  /\ Goto(p, "done")
  /\ UNCHANGED <<disk, tmp, tracker, opt, local, inflight, exitHow>>

\* Lines 831-834: endSession, releaseLockNew, cleanupLockHandlers(),
\* process.exit(1).
FailEnd(p) ==
  /\ pc[p] = "failend"
  /\ ReleaseAndExit(p, "error")

\* executeRunCommand has returned; the process ends when no I/O is pending.
Finished(p) ==
  /\ pc[p] = "done"
  /\ inflight[p] = EmptyBag
  /\ ProcessExit(p, "finished")

\* An uncaught failure outside the try blocks while the lock is held: the
\* cleanup handlers run.
Uncaught(p) ==
  /\ pc[p] \in {"session", "isave_w", "isave_r", "post", "csave_w", "csave_r",
                 "cdelete", "fsave_w", "fsave_r"}
  /\ ProcessExit(p, "uncaught")

\* The process is killed (SIGKILL, power loss) at any point.
Kill(p) ==
  /\ pc[p] \notin {"off", "exited"}
  /\ ProcessExit(p, "killed")

\* The exit code of the process: process.exit(1) at lines 391, 602, 713,
\* 736, 751, 797, 834, process.exit(0) at lines 590, 615, the return of
\* executeRunCommand (line 860), an uncaught exception, SIGKILL.
exitCode(how) ==
  CASE how \in {"force", "abort", "conflict", "error", "uncaught"} -> 1
    [] how \in {"graceful", "finished"} -> 0
    [] how = "killed" -> 137
    [] OTHER -> -1

\* ------------------------------------------------------------- specifications
Options == [force : BOOLEAN, resume : BOOLEAN, headless : BOOLEAN]

\* The command itself, started with one of the options O.
Command(p, O) ==
  \/ Start(p, O)
  \/ CheckExisting(p)
  \/ PromptStep(p)
  \/ DeleteOld(p)
  \/ Acquire(p)
  \/ OpenSession(p)
  \/ EngineInit(p)
  \/ SaveWrite(p)
  \/ SaveRename(p)
  \/ RunStart(p)
  \/ EngineBegin(p)
  \/ EngineFinish(p)
  \/ EngineStopped(p)
  \/ InflightWrite(p)
  \/ InflightRename(p)
  \/ PostRun(p)
  \/ DeleteCompleted(p)
  \/ EndRun(p)
  \/ Finished(p)
  \/ Kill(p)

\* The user, the signals and the failures of a run.
Interaction(p) ==
  \/ EnginePause(p)
  \/ EngineResume(p)
  \/ EngineThrow(p)
  \/ FailEnd(p)
  \/ Interrupt(p)
  \/ WindowExpire(p)
  \/ ConfirmQuit(p)
  \/ Sigterm(p)
  \/ GracefulFinish(p)
  \/ Uncaught(p)

\* One run of the command in a working directory that an earlier run, a
\* live foreign process or a dead one may have left its files in.  Every
\* agent run ends normally here; failing agent runs are in SpecEngine.
Next == Command("p1", Options) \/ Interaction("p1") \/ TrackerAdd
Spec == Init /\ [][Next]_vars

\* Two headless runs of the command on the same working directory, neither
\* with --force, neither interrupted other than by being killed.
LockOptions == {o \in Options : ~o.force /\ o.headless}
InitLock ==
  /\ Init
  /\ lock \in {<<>>, <<[pid |-> DeadPid, sid |-> OldSid]>>}
  /\ tasksOpen = 1
NextLock == \E p \in Procs : Command(p, LockOptions)
SpecLock == InitLock /\ [][NextLock]_vars

\* One run of the command in a fresh working directory, left to itself: no
\* signal, no quit, no kill; the agent run of an iteration may fail.
EngineOptions == {o \in Options : ~o.force /\ ~o.resume /\ o.headless}
InitEngine ==
  /\ Init
  /\ lock = <<>>
  /\ disk = <<>>
NextEngine ==
  \/ Start("p1", EngineOptions)
  \/ CheckExisting("p1")
  \/ Acquire("p1")
  \/ OpenSession("p1")
  \/ EngineInit("p1")
  \/ SaveWrite("p1")
  \/ SaveRename("p1")
  \/ RunStart("p1")
  \/ EngineBegin("p1")
  \/ EngineFinish("p1")
  \/ EngineFail("p1")
  \/ EnginePause("p1")
  \/ EngineResume("p1")
  \/ EngineStopped("p1")
  \/ InflightWrite("p1")
  \/ InflightRename("p1")
  \/ PostRun("p1")
  \/ DeleteCompleted("p1")
  \/ EndRun("p1")
  \/ Finished("p1")
  \/ TrackerAdd
SpecEngine == InitEngine /\ [][NextEngine]_vars

\* The happy path: a headless run in a working directory without a session
\* file or with the file of a completed session, N open tasks, max_iterations > N, an agent that always succeeds
\* and completes its task, a tracker nobody else changes, no signal and no
\* failure.  Every step that can be taken is taken in the end.
HappyOptions == {o \in Options : ~o.resume /\ o.headless}
InitHappy ==
  /\ Init
  /\ lock \in {<<>>, <<[pid |-> DeadPid, sid |-> OldSid]>>}
  /\ disk # <<>> => disk[1].status = "completed"
  /\ tasksOpen < MaxIterations
HappyInit(p) ==
  EngineInit(p) /\ pc'[p] = "isave_w" /\ eng'[p].max > tasksOpen
HappyFinish(p) == EngineFinish(p) /\ tasksDone' = tasksDone + 1
NextHappy ==
  \/ Start("p1", HappyOptions)
  \/ CheckExisting("p1")
  \/ PromptStep("p1")
  \/ DeleteOld("p1")
  \/ Acquire("p1")
  \/ OpenSession("p1")
  \/ HappyInit("p1")
  \/ SaveWrite("p1")
  \/ SaveRename("p1")
  \/ RunStart("p1")
  \/ EngineBegin("p1")
  \/ HappyFinish("p1")
  \/ EngineStopped("p1")
  \/ InflightWrite("p1")
  \/ InflightRename("p1")
  \/ PostRun("p1")
  \/ DeleteCompleted("p1")
  \/ EndRun("p1")
  \/ Finished("p1")
SpecHappy == InitHappy /\ [][NextHappy]_vars /\ WF_vars(NextHappy)

\* One run of the command with the TUI in a fresh working directory, with a
\* budget of iterations, so that the engine loop always comes to its end.
\* The steps of the program (ProgramTui) are taken in the end whenever they
\* can be taken: the agent run of an iteration ends, a save that was started
\* finishes.  The user and the signals (the other steps) are free to act or
\* not.
TuiOptions == {o \in Options : ~o.force /\ ~o.resume /\ ~o.headless}
InitTui ==
  /\ Init
  /\ lock = <<>>
  /\ disk = <<>>
TuiInit(p) == EngineInit(p) /\ (pc'[p] = "isave_w" => eng'[p].max > 0)
ProgramTui ==
  \/ Start("p1", TuiOptions)
  \/ CheckExisting("p1")
  \/ Acquire("p1")
  \/ OpenSession("p1")
  \/ TuiInit("p1")
  \/ SaveWrite("p1")
  \/ SaveRename("p1")
  \/ RunStart("p1")
  \/ EngineBegin("p1")
  \/ EngineFinish("p1")
  \/ EngineStopped("p1")
  \/ InflightWrite("p1")
  \/ InflightRename("p1")
  \/ GracefulFinish("p1")
  \/ PostRun("p1")
  \/ DeleteCompleted("p1")
  \/ EndRun("p1")
  \/ Finished("p1")
NextTui ==
  \/ ProgramTui
  \/ Interrupt("p1")
  \/ WindowExpire("p1")
  \/ ConfirmQuit("p1")
  \/ Sigterm("p1")
SpecTui == InitTui /\ [][NextTui]_vars /\ WF_vars(ProgramTui)

\* ------------------------------------------------------------- properties
\* Where a command stands between the acquisition of the lock and its
\* release.
LockedAt ==
  {"session", "init", "isave_w", "isave_r", "run", "running", "waitquit",
   "post", "csave_w", "csave_r", "cdelete", "fsave_w", "fsave_r", "end",
   "xsave_w", "xsave_r", "failend"}
Holding(p) == pc[p] \in LockedAt
BeforeLock == {"check", "prompt", "delete", "acquire"}
Statuses == {"running", "paused", "interrupted", "completed", "failed"}
Killed(p) == exitHow[p] # "killed" /\ exitHow'[p] = "killed"
LiveLock == lock # <<>> /\ Alive(lock[1].pid)
StaleLock == lock # <<>> /\ ~Alive(lock[1].pid)

\* C1: without force, at most one process holds a valid lock at a time:
\* every process between its acquisition and its release is the one the
\* lock file names, so no two processes are there together.
C1_OneHolder ==
  \A p \in Procs :
    Holding(p) =>
      /\ lock = <<[pid |-> p, sid |-> lockSid[p]]>>
      /\ \A q \in Procs : Holding(q) => q = p
C1_Witness ==
  \E p, q \in Procs :
    /\ p # q /\ Holding(p) /\ lock # <<>> /\ lock[1].pid = p
    /\ exitHow[q] = "conflict"

\* C2: a process that calls acquire on a lock naming a running process
\* fails without force (the lock is left as it is, the run exits with an
\* error and has created no session and written no file) and succeeds with
\* force (the lock names the caller).
C2_LiveHolder ==
  [][\A p \in Procs :
       (pc[p] = "acquire" /\ pc'[p] # "acquire" /\ ~Killed(p) /\ LiveLock) =>
         IF opt[p].force
         THEN /\ pc'[p] = "session"
              /\ lock' = <<[pid |-> p, sid |-> randomUUID(p, "lock")]>>
         ELSE /\ pc'[p] = "exited" /\ exitHow'[p] = "conflict"
              /\ lock' = lock /\ disk' = disk /\ tmp' = tmp
              /\ sid[p] = NoSid /\ sid'[p] = NoSid]_vars
C2_Witness ==
  \E p \in Procs :
    /\ exitHow[p] = "conflict"
    /\ lock = <<[pid |-> ForeignPid, sid |-> OldSid]>>

\* C3: on a lock naming a dead process, a run without force is not turned
\* away by the prompt, its acquire succeeds, and the lock then names the
\* caller's pid together with the caller's session id; the lock file never
\* holds the pid of one process with the session id of another.
C3_StaleLock ==
  [][\A p \in Procs :
       /\ (pc[p] = "prompt" /\ pc'[p] # "prompt" /\ ~Killed(p) /\ StaleLock)
            => pc'[p] = "delete"
       /\ (pc[p] = "acquire" /\ pc'[p] # "acquire" /\ ~Killed(p) /\ StaleLock
             /\ ~opt[p].force)
            => /\ pc'[p] = "session"
               /\ lockSid'[p] = randomUUID(p, "lock")
               /\ lock' = <<[pid |-> p, sid |-> lockSid'[p]]>>
       /\ lock' # <<>> =>
            \/ lock'[1] \in {[pid |-> q, sid |-> OldSid] : q \in {DeadPid, ForeignPid}}
            \/ \E q \in Procs : lock'[1] = [pid |-> q, sid |-> randomUUID(q, "lock")]]_vars
C3_Witness ==
  \E p \in Procs :
    /\ pc[p] = "session" /\ lockResult[p] = "stale" /\ ~opt[p].force
    /\ lock = <<[pid |-> p, sid |-> lockSid[p]]>>

\* C4: the lock is created before any mutation of session state: no write
\* or deletion of the session file is made by a process that has not yet
\* acquired the lock.
C4_LockBeforeMutation ==
  [][\A p \in Procs :
       (pc[p] \in BeforeLock /\ pc'[p] # pc[p]) => disk' = disk /\ tmp' = tmp]_vars

\* C5: a run that acquired the lock has released it when it has exited in
\* any way but a force quit or a kill: normal finish, resume failure,
\* initialisation failure, execution error, graceful interruption,
\* uncaught failure.
C5_Released ==
  \A p \in Procs :
    (pc[p] = "exited" /\ exitHow[p] \in {"finished", "error", "graceful", "uncaught"})
      => ~(lock # <<>> /\ lock[1].pid = p)
C5_Witness ==
  \E p \in Procs :
    /\ pc[p] = "exited" /\ exitHow[p] = "graceful" /\ lock = <<>>
    /\ disk # <<>> /\ disk[1].sid = randomUUID(p, "session")

\* C6: within one run of a session, current_iteration as read from the
\* session file never decreases, whatever the order in which the saves in
\* flight finish.
C6_IterationMonotonic ==
  [][\A p \in Procs :
       (pc[p] \in {"running", "waitquit"} /\ disk # <<>> /\ disk' # <<>>
          /\ disk[1].sid = sid[p] /\ disk'[1].sid = sid[p])
         => disk'[1].iter >= disk[1].iter]_vars

\* C7: when an iteration starts, the save triggered by every earlier
\* iteration:completed has finished: the session file holds a snapshot of
\* this session with at least the iterations completed so far.
C7_SavedBeforeNextStart ==
  [][\A p \in Procs :
       (pc[p] = "running" /\ eng[p].phase = "tick" /\ eng'[p].phase = "agent")
         => /\ disk # <<>>
            /\ disk[1].sid = sid[p]
            /\ disk[1].iter >= eng[p].iter]_vars

\* C8: when a force quit is taken, the current_iteration on disk equals the
\* index of the last iteration:completed the engine emitted.
C8_ForceQuitDurable ==
  [][\A p \in Procs :
       (exitHow[p] # "force" /\ exitHow'[p] = "force")
         => /\ disk # <<>>
            /\ disk[1].sid = sid[p]
            /\ disk[1].iter = eng[p].iter]_vars

C10_ResumeKeepsCounters ==
  [][\A p \in Procs :
       (pc[p] = "init" /\ pc'[p] = "isave_w" /\ disk # <<>> /\ sid[p] = disk[1].sid)
         => /\ cur'[p].sid = disk[1].sid
            /\ cur'[p].iter = disk[1].iter
            /\ cur'[p].tc = disk[1].tc]_vars

\* C11: tasks_completed <= total_tasks in every in-memory and every
\* persisted session state, while the tracker may complete tasks that were
\* not in the snapshot taken when the session was created.
C11_CompletedWithinTotal ==
  /\ \A p \in Procs : cur[p].tc <= cur[p].total
  /\ disk # <<>> => disk[1].tc <= disk[1].total

\* C12: every snapshot in the session file with is_paused = true has
\* status = paused.
C12_PausedFlagMeansPaused ==
  disk # <<>> /\ disk[1].paused => disk[1].status = "paused"

\* C13: the session file is destroyed only on the successful completed
\* terminal: a step that removes it is taken by a run that has marked and
\* saved the session as completed.
C13_DeletedOnlyWhenCompleted ==
  [][(disk # <<>> /\ disk' = <<>>) =>
       \E p \in Procs : pc[p] = "cdelete" /\ cur[p].status = "completed"]_vars

\* C14: when a session is marked completed, tasks_completed = total_tasks
\* or the engine terminated with reason idle; a run that stopped for
\* another reason while tasks remain is not marked completed.
C14_CompletedMeansDone ==
  [][\A p \in Procs :
       (cur[p].status # "completed" /\ cur'[p].status = "completed") =>
         /\ cur'[p].tc = cur'[p].total \/ eng[p].reason = "idle"
         /\ ~(eng[p].reason # "idle" /\ tasksOpen > 0)]_vars

\* C15: task:completed is emitted only at the end of an iteration that
\* selected a task and emitted iteration:started: the engine counts a
\* completed task only in the step that ends the agent's run of an
\* iteration it has started, and an iteration starts only from the head of
\* the loop with a task to select.
C15_EventOrder ==
  [][\A p \in Procs :
       /\ eng'[p].tc > eng[p].tc =>
            /\ pc[p] = "running" /\ eng[p].phase = "agent"
            /\ eng'[p].phase = "tick"
            /\ eng'[p].iter = eng[p].iter + 1 /\ eng'[p].tc = eng[p].tc + 1
            /\ cur'[p].iter = cur[p].iter + 1 /\ cur'[p].tc = cur[p].tc + 1
       /\ (eng[p].phase # "agent" /\ eng'[p].phase = "agent") =>
            /\ eng[p].phase = "tick" /\ eng[p].status = "running"
            /\ tasksOpen > 0
            /\ eng'[p].iter = eng[p].iter /\ eng'[p].tc = eng[p].tc]_vars
C15_Witness ==
  \E p \in Procs :
    pc[p] = "running" /\ eng[p].phase = "tick" /\ eng[p].tc = 1 /\ eng[p].iter = 2

\* C16: an interrupt in Idle moves to Pending; a force quit is taken only
\* by a second interrupt that arrives while the first is pending within the
\* double-press window, and it ends the process with a non-zero exit code;
\* once the window has expired an interrupt is a first one again and does
\* not force-quit.
C16_DoublePress ==
  [][\A p \in Procs :
       /\ (exitHow[p] # "force" /\ exitHow'[p] = "force") =>
            /\ InRun(p) /\ intr[p] \in {"pending", "recent"}
            /\ pc'[p] = "exited" /\ exitCode(exitHow'[p]) # 0
       /\ (intr[p] # "pending" /\ intr'[p] = "pending") =>
            /\ intr[p] = "idle" /\ pc'[p] = pc[p] /\ inflight'[p] = inflight[p]
       /\ (intr[p] = "idle" /\ InRun(p)) => exitHow'[p] # "force"]_vars
C16_Witness ==
  \E p \in Procs :
    pc[p] = "exited" /\ exitHow[p] = "force" /\ exitCode(exitHow[p]) = 1

\* C17: in headless mode the first interrupt starts the graceful shutdown
\* at once, with no confirmation: the session becomes interrupted and its
\* save is started; the shutdown ends with the session file holding status
\* interrupted and the process exited; a second interrupt within the window
\* while the shutdown is in progress force-quits.
C17_HeadlessInterrupt ==
  [][\A p \in Procs :
       /\ (opt[p].headless /\ InRun(p) /\ intr[p] = "idle" /\ intr'[p] = "recent") =>
            /\ Quitting(p)' /\ cur'[p].status = "interrupted" /\ pc'[p] = pc[p]
       /\ opt[p].headless => intr[p] \in {"idle", "recent"}
       /\ (exitHow[p] # "graceful" /\ exitHow'[p] = "graceful") =>
            /\ opt[p].headless /\ pc'[p] = "exited"
            /\ disk # <<>> /\ disk[1].sid = sid[p] /\ disk[1].status = "interrupted"
       /\ (opt[p].headless /\ exitHow[p] # "force" /\ exitHow'[p] = "force") =>
            Quitting(p) /\ intr[p] = "recent"]_vars

\* C18: the exit code tells how the run ended: 0 when it finished, 1 on a
\* fatal error, a lock conflict or an initialisation failure, 130 when it
\* was interrupted gracefully, 137 on a force quit.
C18_ExitCodes ==
  \A p \in Procs :
    pc[p] = "exited" =>
      /\ exitHow[p] = "finished" => exitCode(exitHow[p]) = 0
      /\ exitHow[p] \in {"error", "conflict", "abort"} => exitCode(exitHow[p]) = 1
      /\ exitHow[p] = "graceful" => exitCode(exitHow[p]) = 130
      /\ exitHow[p] = "force" => exitCode(exitHow[p]) = 137

\* C19: the engine terminates with reason max_iterations only when
\* max_iterations > 0 and exactly max_iterations iterations have been run
\* (and then at most that many tasks are completed); with max_iterations = 0
\* it never terminates for budget reasons.
C19_BudgetStop ==
  \A p \in Procs :
    eng[p].reason = "max_iterations" =>
      /\ eng[p].max > 0
      /\ eng[p].iter = eng[p].max
      /\ eng[p].tc <= eng[p].iter
      /\ eng[p].status = "stopped"
C19_Witness ==
  \E p \in Procs :
    /\ eng[p].reason = "max_iterations"
    /\ eng[p].iter = MaxIterations /\ eng[p].tc = MaxIterations

\* C20: after a budget stop with tasks remaining, and no interrupt taken,
\* the run ends with the session file on disk holding this session with
\* status running: it is neither marked completed nor deleted.
C20_BudgetStopResumable ==
  [][\A p \in Procs :
       (pc[p] = "end" /\ pc'[p] = "done"
          /\ eng[p].reason = "max_iterations" /\ tasksOpen > 0
          /\ cur[p].status # "interrupted" /\ ~Quitting(p)) =>
         /\ cur[p].status = "running"
         /\ disk # <<>> /\ disk[1].sid = sid[p] /\ disk[1].status = "running"]_vars

C22_HappyPath ==
  /\ <>(/\ eng["p1"].status = "stopped" /\ eng["p1"].reason = "idle"
        /\ eng["p1"].iter = eng["p1"].total /\ eng["p1"].tc = eng["p1"].total)
  /\ <>[](pc["p1"] = "exited" /\ exitHow["p1"] = "finished" /\ disk = <<>>)

\* C23: a failed iteration with a transient error is retried while fewer
\* than retry.max_attempts retries were made for the task, and the k-th
\* iteration:retrying (k from 0) carries the delay min(initial * 2^k, cap):
\* 10, 20, 40 ms; the failure after the last retry is answered with skip,
\* the task is left, and an iteration only starts with a task that was not
\* left.
C23_RetryBackoff ==
  [][\A p \in Procs :
       /\ (eng'[p].failed = eng[p].failed + 1 /\ eng'[p].error = "transient") =>
            IF eng[p].attempts < RetryMaxAttempts
            THEN /\ eng'[p].action = "retry"
                 /\ eng'[p].attempts = eng[p].attempts + 1
                 /\ eng'[p].delay =
                      Min(InitialDelayMs * (2 ^ eng[p].attempts), BackoffCapMs)
                 /\ eng'[p].attempts = 1 => eng'[p].delay = 10
                 /\ eng'[p].attempts = 2 => eng'[p].delay = 20
                 /\ eng'[p].attempts = 3 => eng'[p].delay = 40
                 /\ eng'[p].excluded = eng[p].excluded
                 /\ eng'[p].status = eng[p].status
            ELSE /\ eng[p].attempts = RetryMaxAttempts
                 /\ eng'[p].action = "skip"
                 /\ eng'[p].attempts = 0
                 /\ eng'[p].excluded = eng[p].excluded + 1
                 /\ eng'[p].delay = eng[p].delay
       /\ eng'[p].attempts > eng[p].attempts => eng'[p].error = "transient"
       /\ (eng[p].phase = "tick" /\ eng'[p].phase = "agent") =>
            tasksOpen - eng[p].excluded > 0]_vars
C23_Witness ==
  \E p \in Procs :
    /\ eng[p].phase = "agent" /\ eng[p].failed = RetryMaxAttempts + 1
    /\ eng[p].error = "transient" /\ eng[p].action = "skip"
    /\ eng[p].delay = 40 /\ eng[p].excluded = 1 /\ eng[p].attempts = 0

\* C24: an environment / not-ready / authentication error of the agent
\* plugin is never retried: the iteration ends with iteration:failed and
\* action abort, without iteration:retrying, the engine terminates with
\* reason fatal in the same step, only such an error gives that reason, and
\* after it the engine runs no further iteration.
C24_FatalAborts ==
  [][\A p \in Procs :
       /\ (eng'[p].failed = eng[p].failed + 1 /\ eng'[p].error = "fatal") =>
            /\ eng'[p].action = "abort"
            /\ eng'[p].status = "stopped" /\ eng'[p].reason = "fatal"
            /\ eng'[p].attempts = eng[p].attempts
            /\ eng'[p].delay = eng[p].delay
       /\ (eng[p].reason # "fatal" /\ eng'[p].reason = "fatal") =>
            eng'[p].failed = eng[p].failed + 1 /\ eng'[p].error = "fatal"
       /\ (eng[p].reason = "fatal" /\ pc'[p] # "exited") => eng'[p] = eng[p]]_vars
C24_Witness ==
  \E p \in Procs :
    /\ pc[p] = "end"
    /\ eng[p].reason = "fatal" /\ eng[p].status = "stopped"
    /\ eng[p].error = "fatal" /\ eng[p].action = "abort"
    /\ eng[p].iter = eng[p].failed /\ eng[p].failed = 1

\* C25: once the interrupt is confirmed (graceful shutdown has begun) the
\* engine starts no new iteration, and a process that ends by the graceful
\* shutdown has an engine that stopped with reason interrupted.
C25_InterruptStopsEngine ==
  [][\A p \in Procs :
       /\ (pc[p] = "running" /\ (Quitting(p) \/ intr[p] \in {"confirmed", "disposed"})) =>
            ~(eng[p].phase = "tick" /\ eng'[p].phase = "agent")
       /\ (exitHow[p] # "graceful" /\ exitHow'[p] = "graceful") =>
            eng[p].status = "stopped" /\ eng[p].reason = "interrupted"]_vars

\* C26: while the engine is paused no iteration starts (no task:selected,
\* no iteration:started) until resume() has made it running again, and
\* once the saves started so far have finished the session file records
\* the paused state: status paused with is_paused set.
C26_PauseCheckpoint ==
  [][\A p \in Procs :
       /\ eng[p].status = "paused" =>
            ~(eng[p].phase = "tick" /\ eng'[p].phase = "agent")
       /\ (eng[p].status = "paused" /\ eng'[p].status = "running") =>
            /\ cur'[p].status = "running" /\ ~cur'[p].paused
            /\ eng'[p].iter = eng[p].iter /\ eng'[p].tc = eng[p].tc
       /\ (pc[p] = "running" /\ eng[p].status = "paused"
             /\ inflight[p] = EmptyBag) =>
            /\ disk # <<>> /\ disk[1].sid = sid[p]
            /\ disk[1].status = "paused" /\ disk[1].paused]_vars

\* C27: when the graceful shutdown was called while an iteration was in
\* progress and the process ends by it, the session file holds this
\* session with every iteration folded whose iteration:completed was
\* emitted.
C27_CoherentPrefix ==
  [][\A p \in Procs :
       (/\ exitHow[p] # "graceful" /\ exitHow'[p] = "graceful"
        /\ \E e \in BagToSet(inflight[p]) : e.then = "quit" /\ e.at = "agent") =>
         /\ disk # <<>> /\ disk[1].sid = sid[p]
         /\ disk[1].iter = cur[p].iter /\ disk[1].tc = cur[p].tc]_vars

\* C28: in the interrupt coordinator of the TUI, Pending plus cancel or
\* expiry of the timer goes back to Idle and does nothing else (the
\* graceful-shutdown callback is not called: no save is started, the state
\* and the run are untouched); after a reset an interrupt opens Pending
\* again and the process is not force-quit from Idle.
C28_CancelResets ==
  [][\A p \in Procs :
       ~opt[p].headless =>
         /\ (intr[p] = "pending" /\ intr'[p] = "idle" /\ pc'[p] # "exited") =>
              /\ cancels'[p] >= 1
              /\ inflight'[p] = inflight[p]
              /\ cur'[p] = cur[p] /\ eng'[p] = eng[p] /\ pc'[p] = pc[p]
              /\ <<lock, disk, tmp>>' = <<lock, disk, tmp>>
         /\ (cancels[p] >= 1 /\ intr[p] = "idle" /\ InRun(p)) =>
              /\ exitHow'[p] # "force"
              /\ intr'[p] # "recent"
              /\ (intr'[p] = "pending") =>
                   /\ pc'[p] = pc[p] /\ inflight'[p] = inflight[p]]_vars
C28_Witness ==
  \E p \in Procs :
    /\ ~opt[p].headless /\ pc[p] = "running"
    /\ cancels[p] = 1 /\ intr[p] = "pending" /\ ~Quitting(p)

\* C29: when the engine has stopped, the counters the observer has folded
\* from the events (current_iteration, tasks_completed) equal the
\* engine's own total_iterations and tasks_completed.
C29_FoldReplay ==
  \A p \in Procs :
    (pc[p] = "running" /\ eng[p].status = "stopped") =>
      /\ cur[p].iter = eng[p].iter
      /\ cur[p].tc = eng[p].tc

\* C30: a run started with --resume on an existing session file goes on
\* with the persisted session exactly when its status is running, paused
\* or interrupted and tasks_completed is below total_tasks; otherwise
\* (failed, completed, or every task completed) it ends with an error.
C30_Resumable ==
  [][\A p \in Procs :
       (pc[p] = "session" /\ opt[p].resume /\ chk[p] /\ disk # <<>>) =>
         LET ok == /\ disk[1].status \in {"running", "paused", "interrupted"}
                   /\ disk[1].tc < disk[1].total
         IN /\ pc'[p] = "init" => ok /\ sid'[p] = disk[1].sid
            /\ (pc'[p] = "exited" /\ exitHow'[p] = "error") => ~ok
            /\ disk[1].status \in {"failed", "completed"} => pc'[p] # "init"]_vars
C30_Witness ==
  \E p \in Procs : pc[p] = "init" /\ sid[p] = OldSid /\ disk # <<>>

\* C31: the session id in the lock file of a running process is the
\* session_id of the session that process persists in the session file,
\* for a new session and for a resumed one.
C31_LockMatchesSession ==
  \A p \in Procs :
    (/\ Holding(p) /\ lock # <<>> /\ lock[1].pid = p
     /\ disk # <<>> /\ cur[p].sid # NoSid /\ disk[1].sid = cur[p].sid) =>
      lock[1].sid = disk[1].sid

\* C32: a run started without force never deletes or overwrites the
\* session file of another live process: while a process holds the lock and
\* the session file is the one it has written, no step of the lock check,
\* of the deletion of the old session file or of the lock acquisition of
\* another process changes the session file.
C32_ForeignFileUntouched ==
  [][\A p, q \in Procs :
       (/\ p # q /\ pc[p] \in BeforeLock /\ pc'[p] # pc[p] /\ ~opt[p].force
        /\ Holding(q) /\ lock # <<>> /\ lock[1].pid = q
        /\ disk # <<>> /\ disk[1].sid = randomUUID(q, "session"))
         => disk' = disk]_vars

\* C33: in TUI mode, once the user has confirmed a quit (quit key,
\* confirmed interrupt dialog or SIGTERM), runWithTui returns in the end
\* and the run command goes through its final save and its release of the
\* lock to its end, whether the confirmation came while the engine loop
\* was running or after the engine had stopped.
C33_QuitReturns ==
  \A p \in Procs :
    (InRun(p) /\ ~opt[p].headless /\ Quitting(p)) ~> (pc[p] = "exited")

\* C34: when the engine run throws an execution error, the run command
\* persists the session with status failed before it releases the lock,
\* does not delete the session file, and exits with code 1: at the release
\* of the lock the session file is the one of this run and shows status
\* failed, not running.
C34_FailedBeforeRelease ==
  [][\A p \in Procs :
       /\ (pc[p] \in {"xsave_w", "xsave_r", "failend"} /\ disk # <<>>) => disk' # <<>>
       /\ (pc[p] = "failend" /\ pc'[p] = "exited" /\ exitHow'[p] = "error") =>
            /\ disk # <<>> /\ disk[1].sid = sid[p]
            /\ disk[1].status = "failed"
            /\ disk' = disk
            /\ ~(lock' # <<>> /\ lock'[1].pid = p)
            /\ exitCode(exitHow'[p]) = 1]_vars

====
